---- MODULE Spec2Model ----
(***************************************************************************)
(* Model of the Erlang node runtime of src/src/erlang/node/node.go:        *)
(* the process table (Node.channels), the name registry (Node.registered), *)
(* Spawn / Register / Send / SendFrom, the per-connection dispatch loop    *)
(* (mLoop, handleTerms, RegSend) and Publish with its EPMD handshake tasks *)
(* (epmdC, epmdREADER, epmdWRITER).                                        *)
(***************************************************************************)
EXTENDS Integers, Sequences, FiniteSets, TLC

(* ------------------------------ bounds -------------------------------- *)
\* number of API callers that each run one Spawn, possibly concurrently
NumSpawners == 2
\* number of API callers of Register / Send / SendFrom, and calls per caller
NumCallers == 1
MaxCalls == 2
\* number of peer connections and frames decoded per connection
MaxConn == 2
MaxFrames == 2
\* number of Publish calls and of reads on one EPMD connection
MaxPublish == 2
MaxReads == 1

(* --------------------------- program constants ------------------------ *)
\* the opcode of a registered send in the distribution protocol
REG_SEND == 6
\* the opcode of another control message (SEND)
OTHER_OP == 2
\* epmd.ALIVE2_RESP, the message id of the registration response
ALIVE2_RESP == 121
\* another EPMD message id (PORT2_RESP)
OTHER_RESP == 119
\* the two values of aliveResp that Publish reads as errors
DUP_MARK == 99
NOCONN_MARK == 100
\* the default channel size of Spawn
DefaultChanSize == 100
\* the width of Pid.Creation (byte)
ByteMod == 256

(* ------------------------------- terms -------------------------------- *)
FullName == "n@h"

Spawners == 1..NumSpawners
Callers == 1..NumCallers
Conns == 1..MaxConn
Pubs == 1..MaxPublish
Ports == {5001, 5002}

MkPid(node, id, creation) ==
  [Node |-> node, Id |-> id, Serial |-> 0, Creation |-> creation]

\* the zero value of term.Pid
ZeroPid == MkPid("", 0, 0)

\* an identity of another node: never a key of this node's table
RemotePid == MkPid("peer@h", 0, 0)

Names == {"net_kernel", "global_name_server", "a"}
Payloads == {"m1", "m2"}

TInt(i) == [tag |-> "int", val |-> i]
TAtom(a) == [tag |-> "atom", val |-> a]
TPid(p) == [tag |-> "pid", val |-> p]
TTuple(s) == [tag |-> "tuple", val |-> s]

\* term.Tuple.Element: 1-based positional access
Element(t, i) == t.val[i]


(* ------------------------------- state -------------------------------- *)
VARIABLES
  Creation,    \* Node.NodeInfo.Creation
  Port,        \* Node.NodeInfo.Port
  channels,    \* Node.channels: Pid -> procChannels (an index into chans)
  registered,  \* Node.registered: Atom -> Pid
  crashed,     \* the process was ended by an unrecovered panic
  listeners,   \* ports whose listening socket (net.Listen) is open
  accepting,   \* ports whose accept loop goroutine runs
  spawn,       \* the Spawn call of each API caller in Spawners
  chans,       \* the procChannels values made by Spawn, in the order stored
  call,        \* the Register/Send/SendFrom calls of each caller in Callers
  conn,        \* each peer connection and its mLoop goroutine
  pubN,        \* number of Publish calls started
  pubPc,       \* position of the running Publish call
  pubTmp,      \* locals of the running Publish call (port, allocated pid, options)
  pubRes,      \* per Publish call: its result, the value it read from aliveResp
  epmd         \* per Publish call: epmdC, epmdREADER, epmdWRITER and the socket

vars == <<Creation, Port, channels, registered, crashed, listeners, accepting,
          spawn, chans, call, conn, pubN, pubPc, pubTmp, pubRes, epmd>>

nodeVars == <<Creation, Port, channels, registered, listeners, accepting>>
pubVars == <<pubN, pubPc, pubTmp, pubRes, epmd>>

(* ------------------------- process table, Spawn ----------------------- *)
\* Spawn's options: no "chan-size" entry, or an int
NoOption == -1
OptionChoices == {NoOption, 1}

Max(S) == CHOOSE x \in S : \A y \in S : y <= x

\* Node.allocatePid: one more than the greatest Id in the table, 0 when empty
\* (Id is a uint32; the table never holds 2^32 entries, so the sum never wraps)
AllocatePid ==
  LET ids == {k.Id : k \in DOMAIN channels}
      id == IF ids = {} THEN 0 ELSE Max(ids) + 1
  IN [Node |-> FullName, Id |-> id, Serial |-> 0, Creation |-> Creation % ByteMod]

\* Spawn's channel sizes: chanSize for in and inFrom, ctlChanSize for ctl
ChanSize(opt) == IF opt = NoOption THEN DefaultChanSize ELSE opt
CtlChanSize(opt) == IF opt = NoOption THEN 0 ELSE opt

\* the procChannels Spawn makes: three empty channels with their capacities
NewProcChannels(opt) ==
  [in |-> <<>>, inFrom |-> <<>>, ctl |-> <<>>,
   cap |-> ChanSize(opt), ctlCap |-> CtlChanSize(opt)]

\* n.channels[pid] = chs (chs an index into chans)
StoreProcess(pid, chs) ==
  [p \in DOMAIN channels \cup {pid} |-> IF p = pid THEN chs ELSE channels[p]]

\* a Spawn call: its position, the pid allocated, the option its process gave,
\* and pcs, the procChannels it made (an index into chans, 0 before it is made)
IdleSpawn == [pc |-> "idle", pid |-> ZeroPid, opt |-> NoOption, pcs |-> 0]

\* Spawn up to allocatePid's return inside storeProcess; the process's
\* Behaviour() gives one of the options opts
SpawnAllocate(s, opts) ==
  /\ ~crashed
  /\ spawn[s].pc = "idle"
  /\ \E opt \in opts :
       spawn' = [spawn EXCEPT ![s] = [pc |-> "allocated", pid |-> AllocatePid,
                                      opt |-> opt, pcs |-> 0]]
  /\ UNCHANGED <<nodeVars, crashed, chans, call, conn, pubVars>>

\* the rest of storeProcess and of Spawn: insert, start the loop, return pid
SpawnStore(s) ==
  /\ ~crashed
  /\ spawn[s].pc = "allocated"
  /\ chans' = Append(chans, NewProcChannels(spawn[s].opt))
  /\ channels' = StoreProcess(spawn[s].pid, Len(chans) + 1)
  /\ spawn' = [spawn EXCEPT ![s].pc = "done", ![s].pcs = Len(chans) + 1]
  /\ UNCHANGED <<Creation, Port, registered, listeners, accepting, crashed,
                 call, conn, pubVars>>

(* ---------------------- registry, Send, SendFrom ---------------------- *)
\* Register that keeps the binding a name already has
RegisterMapKeepFirst(name, pid) ==
  [a \in DOMAIN registered \cup {name} |->
     IF a \in DOMAIN registered THEN registered[a] ELSE pid]

\* n.registered[name] = pid
RegisterMap(name, pid) ==
  [a \in DOMAIN registered \cup {name} |-> IF a = name THEN pid ELSE registered[a]]

\* Node.Whereis: the bound pid, the zero Pid when the name is unbound
Whereis(who) == IF who \in DOMAIN registered THEN registered[who] ELSE ZeroPid

\* Node.Registered with the index never advanced (no i++): every key is written
\* to the first element and the others keep the zero Atom
RegisteredNoAdvance ==
  LET n == Cardinality(DOMAIN registered)
  IN {s \in [1..n -> DOMAIN registered \cup {""}] :
        \A i \in 1..n : (i = 1) = (s[i] \in DOMAIN registered)}

\* Node.Registered: a slice of len(n.registered) elements, filled with the keys
\* in the order the range over the map yields them, each key once. That order
\* is not specified: the set of the slices one call may return
Registered ==
  LET n == Cardinality(DOMAIN registered)
  IN {s \in [1..n -> DOMAIN registered] : \A i, j \in 1..n : i # j => s[i] # s[j]}

\* pcs := currNode.channels[to]: the entry, or the zero procChannels (nil
\* channels, written 0) when absent
Lookup(to) == IF to \in DOMAIN channels THEN channels[to] ELSE 0

NoPend == [q |-> "none", ch |-> 0, to |-> ZeroPid, dst |-> "none", val |-> <<>>]

\* a send blocked on, or about to complete on, the channel looked up; dst
\* records how the caller named the destination (a pid, an atom, neither)
PendSend(q, to, dst, val) ==
  [q |-> q, ch |-> Lookup(to), to |-> to, dst |-> dst, val |-> val]

\* whether the channel send of a pending send can proceed: a nil channel never
\* can, a channel of the table can while it has room
CanDeliver(pend) ==
  /\ pend.ch # 0
  /\ IF pend.q = "in"
       THEN Len(chans[pend.ch].in) < chans[pend.ch].cap
       ELSE Len(chans[pend.ch].inFrom) < chans[pend.ch].cap

\* pcs.in <- message, pcs.inFrom <- term.Tuple{from, message}
Deliver(pend) ==
  IF pend.q = "in"
    THEN [chans EXCEPT ![pend.ch].in = Append(@, pend.val)]
    ELSE [chans EXCEPT ![pend.ch].inFrom = Append(@, pend.val)]

PidChoices == DOMAIN channels \cup {RemotePid, ZeroPid}
Senders == {TPid(RemotePid)}

\* one completed call of an API caller, as the caller made it: the operation,
\* the name (Register), the pid, and the values handed to the channel send
LogEntry(op, name, to, val) == [op |-> op, name |-> name, to |-> to, val |-> val]

\* an API caller: its position, the number of calls it started, the send it is
\* in, and the calls it has completed, in order
IdleCall == [pc |-> "idle", n |-> 0, pend |-> NoPend, log |-> <<>>]

\* Node.Register called by an API caller, with a name and a pid of the given sets
Register(c, names, pids) ==
  /\ ~crashed
  /\ call[c].pc = "idle" /\ call[c].n < MaxCalls
  /\ \E name \in names, pid \in pids :
       /\ registered' = RegisterMap(name, pid)
       /\ call' = [call EXCEPT ![c].n = @ + 1,
                               ![c].log = Append(@, LogEntry("Register", name, pid, <<>>))]
  /\ UNCHANGED <<Creation, Port, channels, listeners, accepting, crashed,
                 spawn, chans, conn, pubVars>>

\* Node.Send up to the channel send
Send(c) ==
  /\ ~crashed
  /\ call[c].pc = "idle" /\ call[c].n < MaxCalls
  /\ \E to \in PidChoices, msg \in Payloads :
       call' = [call EXCEPT ![c].pc = "sending", ![c].n = @ + 1,
                            ![c].pend = PendSend("in", to, "pid", TAtom(msg))]
  /\ UNCHANGED <<nodeVars, crashed, spawn, chans, conn, pubVars>>

\* Node.SendFrom up to the channel send
SendFrom(c) ==
  /\ ~crashed
  /\ call[c].pc = "idle" /\ call[c].n < MaxCalls
  /\ \E from \in Senders, to \in PidChoices, msg \in Payloads :
       call' = [call EXCEPT ![c].pc = "sending", ![c].n = @ + 1,
                            ![c].pend = PendSend("inFrom", to, "pid", <<from, TAtom(msg)>>)]
  /\ UNCHANGED <<nodeVars, crashed, spawn, chans, conn, pubVars>>

\* the channel send of Send / SendFrom completes and the call returns
SendReturn(c) ==
  /\ ~crashed
  /\ call[c].pc = "sending"
  /\ CanDeliver(call[c].pend)
  /\ chans' = Deliver(call[c].pend)
  /\ call' = [call EXCEPT ![c].pc = "idle", ![c].pend = NoPend,
                          ![c].log = Append(@, LogEntry(IF call[c].pend.q = "in" THEN "Send"
                                                                                 ELSE "SendFrom",
                                                        "", call[c].pend.to,
                                                        <<call[c].pend.val>>))]
  /\ UNCHANGED <<nodeVars, crashed, spawn, conn, pubVars>>


(* --------------------- connections: mLoop, handleTerms ---------------- *)
CtlTuple(op, from, to) == TTuple(<<TInt(op), from, TAtom("cookie"), to>>)

\* the destinations a peer may put in a control tuple
Destinations ==
  {TAtom(a) : a \in Names} \cup {TPid(p) : p \in DOMAIN channels \cup {RemotePid}} \cup {TInt(0)}

\* decoded frames ReadMessage may return: well-formed registered sends ...
GoodFrames ==
  {<<CtlTuple(REG_SEND, from, to), TAtom(msg)>> :
     from \in Senders, to \in Destinations, msg \in {"m1"}}

\* ... and frames that are not a well-formed registered send
OddFrames ==
  { <<>>,
    <<CtlTuple(OTHER_OP, TPid(RemotePid), TAtom("a")), TAtom("m1")>>,
    <<CtlTuple(REG_SEND, TPid(RemotePid), TAtom("a"))>>,
    <<CtlTuple(REG_SEND, TPid(RemotePid), TAtom("a")), TAtom("m1"), TAtom("m2")>>,
    <<TTuple(<<TInt(REG_SEND), TPid(RemotePid)>>), TAtom("m1")>>,
    <<TTuple(<<TAtom("a"), TPid(RemotePid)>>), TAtom("m1")>>,
    <<TTuple(<<>>), TAtom("m1")>>,
    <<TAtom("a"), TAtom("m1")>> }

Frames == GoodFrames \cup OddFrames

Outcome(kind, pend) == [kind |-> kind, pend |-> pend]

\* RegSend with the pair built the wrong way round, (message, from)
RegSendSwapped(from, to, message) ==
  LET toPid == IF to.tag = "pid" THEN to.val
               ELSE IF to.tag = "atom" THEN Whereis(to.val)
               ELSE ZeroPid
      dst == IF to.tag \in {"pid", "atom"} THEN to.tag ELSE "other"
  IN Outcome("send", PendSend("inFrom", toPid, dst, <<message, from>>))

\* Node.RegSend: resolve the destination, then SendFrom up to its channel send
RegSend(from, to, message) ==
  LET toPid == IF to.tag = "pid" THEN to.val
               ELSE IF to.tag = "atom" THEN Whereis(to.val)
               ELSE ZeroPid
      dst == IF to.tag \in {"pid", "atom"} THEN to.tag ELSE "other"
  IN Outcome("send", PendSend("inFrom", toPid, dst, <<from, message>>))

\* term.Tuple.Element with an index beyond the tuple's length: it either panics
\* (a slice index out of range) or returns the nil Term
OutOfRange == {"panic", "nil"}
TNil == [tag |-> "nil", val |-> 0]

\* Node.handleTerms: what dispatching one decoded frame does; oob is what
\* Element does with an index beyond the tuple's length
HandleTerms(terms, oob) ==
  IF Len(terms) = 0 THEN Outcome("drop", NoPend)
  ELSE LET t == terms[1] IN
    IF t.tag # "tuple" THEN Outcome("drop", NoPend)
    ELSE IF Len(t.val) = 0 THEN Outcome("drop", NoPend)
    ELSE IF Element(t, 1).tag # "int" THEN Outcome("drop", NoPend)
    ELSE IF Element(t, 1).val # REG_SEND THEN Outcome("drop", NoPend)
    ELSE IF Len(terms) # 2 THEN Outcome("drop", NoPend)
    ELSE IF Len(t.val) < 4 /\ oob = "panic" THEN Outcome("panic", NoPend)
    ELSE RegSend(IF Len(t.val) < 2 THEN TNil ELSE Element(t, 2),
                 IF Len(t.val) < 4 THEN TNil ELSE Element(t, 4), terms[2])

\* a peer connection: the position of its mLoop, the port it came in on, the
\* frames dispatched, the send it is in, the last frame, the calls of c.Close()
NoConn == [st |-> "none", port |-> 0, frames |-> 0, pend |-> NoPend, last |-> <<>>,
           closes |-> 0]

\* mLoop that leaves the loop on a read error and returns without c.Close()
CloseConnLeak(cn) == [cn EXCEPT !.st = "terminated"]

\* mLoop after a read error: break leaves the loop, c.Close() closes the socket
CloseConn(cn) == [cn EXCEPT !.st = "terminated", !.closes = @ + 1]

\* a peer completes a TCP connection to a port whose listening socket is open
PeerConnect(c) ==
  /\ ~crashed
  /\ conn[c].st = "none"
  /\ \E p \in listeners : conn' = [conn EXCEPT ![c].st = "queued", ![c].port = p]
  /\ UNCHANGED <<nodeVars, crashed, spawn, chans, call, pubVars>>

\* the accept loop of Publish: l.Accept() returns, go n.mLoop(conn)
Accept(c) ==
  /\ ~crashed
  /\ conn[c].st = "queued"
  /\ conn[c].port \in accepting
  /\ conn' = [conn EXCEPT ![c].st = "reading"]
  /\ UNCHANGED <<nodeVars, crashed, spawn, chans, call, pubVars>>

\* mLoop: ReadMessage returns a frame of the given set, handleTerms dispatches it
ConnRead(c, frames) ==
  /\ ~crashed
  /\ conn[c].st = "reading"
  /\ conn[c].frames < MaxFrames
  /\ \E terms \in frames, oob \in OutOfRange :
       LET o == HandleTerms(terms, oob) IN
         /\ conn' = [conn EXCEPT ![c].frames = @ + 1,
                                 ![c].last = terms,
                                 ![c].pend = o.pend,
                                 ![c].st = IF o.kind = "send" THEN "sending" ELSE "reading"]
         /\ crashed' = (o.kind = "panic")
  /\ UNCHANGED <<nodeVars, spawn, chans, call, pubVars>>

\* mLoop: the channel send of SendFrom completes, handleTerms returns
ConnDeliver(c) ==
  /\ ~crashed
  /\ conn[c].st = "sending"
  /\ CanDeliver(conn[c].pend)
  /\ chans' = Deliver(conn[c].pend)
  /\ conn' = [conn EXCEPT ![c].st = "reading", ![c].pend = NoPend]
  /\ UNCHANGED <<nodeVars, crashed, spawn, call, pubVars>>

\* mLoop: ReadMessage returns an error, break, c.Close()
ConnReadErr(c) ==
  /\ ~crashed
  /\ conn[c].st = "reading"
  /\ conn' = [conn EXCEPT ![c] = CloseConn(conn[c])]
  /\ UNCHANGED <<nodeVars, crashed, spawn, chans, call, pubVars>>


(* ------------------ EPMD handshake: epmdC, reader, writer -------------- *)
\* what conn.Read may deliver with a nil error: registration responses with
\* result 0 and a creation, a response with a non-zero result, another message
OkReply(creation) == <<ALIVE2_RESP, 0, creation \div ByteMod, creation % ByteMod>>
Stamps == {1, 256, DUP_MARK, NOCONN_MARK}
Replies == {OkReply(c) : c \in Stamps} \cup {<<ALIVE2_RESP, 1, 0, 0>>, <<OTHER_RESP, 0>>}

\* epmd.Read_ALIVE2_RESP: (creation, ok)
Read_ALIVE2_RESP(reply) ==
  IF reply[2] = 0
    THEN [creation |-> reply[3] * ByteMod + reply[4], ok |-> TRUE]
    ELSE [creation |-> 0, ok |-> FALSE]

NoStamp == -1

NoEpmd == [c |-> "none", r |-> "none", w |-> "none", buf |-> <<>>, val |-> 0,
           stamp |-> NoStamp, reads |-> 0, reqSent |-> FALSE]

\* the body of epmdC's loop for one reply received on epmdFROM: the next
\* position of epmdC, the value it sends on resp, the stamp the parser accepted
OnReply(reply) ==
  IF Len(reply) = 0 THEN [c |-> "panic", val |-> 0, stamp |-> NoStamp]
  ELSE IF reply[1] = ALIVE2_RESP
    THEN LET r == Read_ALIVE2_RESP(reply) IN
         IF r.ok THEN [c |-> "respond", val |-> r.creation, stamp |-> r.creation]
                 ELSE [c |-> "respond", val |-> DUP_MARK, stamp |-> NoStamp]
  ELSE [c |-> "loop", val |-> 0, stamp |-> NoStamp]

\* epmdC: net.Dial succeeds, the reader and the writer are started
EpmdDialOk(k) ==
  /\ ~crashed
  /\ epmd[k].c = "dial"
  /\ epmd' = [epmd EXCEPT ![k].c = "sendReq", ![k].r = "read", ![k].w = "wait"]
  /\ UNCHANGED <<nodeVars, crashed, spawn, chans, call, conn, pubN, pubPc, pubTmp, pubRes>>

\* epmdC: net.Dial fails, conn is nil and defer conn.Close() panics
EpmdDialFail(k) ==
  /\ ~crashed
  /\ epmd[k].c = "dial"
  /\ crashed' = TRUE
  /\ epmd' = [epmd EXCEPT ![k].c = "dialPanic"]
  /\ UNCHANGED <<nodeVars, spawn, chans, call, conn, pubN, pubPc, pubTmp, pubRes>>

\* epmdTO <- Compose_ALIVE2_REQ: epmdC hands the request to the writer
EpmdSendReq(k) ==
  /\ ~crashed
  /\ epmd[k].c = "sendReq" /\ epmd[k].w = "wait"
  /\ epmd' = [epmd EXCEPT ![k].c = "loop", ![k].w = "write"]
  /\ UNCHANGED <<nodeVars, crashed, spawn, chans, call, conn, pubN, pubPc, pubTmp, pubRes>>

\* epmdWRITER: conn.Write of the framed request returns, without error or (when
\* the set of outcomes has FALSE) with one
WriterWrite(k, outcomes) ==
  /\ ~crashed
  /\ epmd[k].w = "write"
  /\ \E ok \in outcomes :
       epmd' = [epmd EXCEPT ![k].w = IF ok THEN "wait" ELSE "sendErr",
                            ![k].reqSent = ok]
  /\ UNCHANGED <<nodeVars, crashed, spawn, chans, call, conn, pubN, pubPc, pubTmp, pubRes>>

\* epmdREADER: conn.Read returns data of the given set (the daemon answers only
\* after the request went out)
ReaderRead(k, replies) ==
  /\ ~crashed
  /\ epmd[k].r = "read" /\ epmd[k].reqSent
  /\ epmd[k].reads < MaxReads
  /\ \E reply \in replies :
       epmd' = [epmd EXCEPT ![k].r = "sendData", ![k].buf = reply, ![k].reads = @ + 1]
  /\ UNCHANGED <<nodeVars, crashed, spawn, chans, call, conn, pubN, pubPc, pubTmp, pubRes>>

\* epmdREADER: conn.Read returns an error (the peer closed, a reset): n = 0
ReaderReadErr(k) ==
  /\ ~crashed
  /\ epmd[k].r = "read"
  /\ epmd' = [epmd EXCEPT ![k].r = "sendErr1", ![k].buf = <<>>]
  /\ UNCHANGED <<nodeVars, crashed, spawn, chans, call, conn, pubN, pubPc, pubTmp, pubRes>>

\* epmdC receives on epmdFROM what the reader sends (in <- buf[:n])
EpmdRecvReader(k) ==
  /\ ~crashed
  /\ epmd[k].c = "loop"
  /\ epmd[k].r \in {"sendData", "sendErr1", "sendErr2"}
  /\ LET o == OnReply(epmd[k].buf) IN
       /\ epmd' = [epmd EXCEPT ![k].c = o.c, ![k].val = o.val, ![k].stamp = o.stamp,
                               ![k].buf = <<>>,
                               ![k].r = IF @ = "sendData" THEN "read"
                                        ELSE IF @ = "sendErr1" THEN "sendErr2"
                                        ELSE "returned"]
       /\ crashed' = (o.c = "panic")
  /\ UNCHANGED <<nodeVars, spawn, chans, call, conn, pubN, pubPc, pubTmp, pubRes>>

\* epmdC receives on epmdFROM the writer's error marker (in <- []byte{})
EpmdRecvWriter(k) ==
  /\ ~crashed
  /\ epmd[k].c = "loop"
  /\ epmd[k].w = "sendErr"
  /\ LET o == OnReply(<<>>) IN
       /\ epmd' = [epmd EXCEPT ![k].c = o.c, ![k].val = o.val, ![k].stamp = o.stamp,
                               ![k].w = "wait"]
       /\ crashed' = (o.c = "panic")
  /\ UNCHANGED <<nodeVars, spawn, chans, call, conn, pubN, pubPc, pubTmp, pubRes>>

(* ------------------------------ Publish ------------------------------- *)
NoRes == [result |-> "none", got |-> NoStamp, stamp |-> NoStamp, port |-> 0]
NoTmp == [pid |-> ZeroPid, opt |-> NoOption]

\* Publish when net.Listen fails: the error is returned
PublishListenFail ==
  /\ ~crashed
  /\ pubPc = "idle" /\ pubN < MaxPublish
  /\ \E port \in Ports :
       pubRes' = [pubRes EXCEPT ![pubN + 1] = [NoRes EXCEPT !.result = "bindErr", !.port = port]]
  /\ pubN' = pubN + 1
  /\ UNCHANGED <<nodeVars, crashed, spawn, chans, call, conn, pubPc, pubTmp, epmd>>

\* Publish up to creation := <-aliveResp: listen, set Port, go epmdC
PublishListen ==
  /\ ~crashed
  /\ pubPc = "idle" /\ pubN < MaxPublish
  /\ \E port \in Ports \ listeners :
       /\ listeners' = listeners \cup {port}
       /\ Port' = port
       /\ pubRes' = [pubRes EXCEPT ![pubN + 1] = [NoRes EXCEPT !.result = "running", !.port = port]]
  /\ pubN' = pubN + 1
  /\ pubPc' = "waitResp"
  /\ epmd' = [epmd EXCEPT ![pubN + 1].c = "dial"]
  /\ UNCHANGED <<Creation, channels, registered, accepting, crashed,
                 spawn, chans, call, conn, pubTmp>>

\* the switch of Publish without its case 99
PublishSwitchNoDup(creation) ==
  IF creation = NOCONN_MARK THEN "noconn" ELSE "ok"

\* the switch of Publish on the value read from aliveResp
PublishSwitch(creation) ==
  IF creation = DUP_MARK THEN "dup"
  ELSE IF creation = NOCONN_MARK THEN "noconn"
  ELSE "ok"

\* Publish reads aliveResp; on an error value it returns the error, otherwise it
\* stores the creation and starts the accept loop
PublishRecv ==
  /\ ~crashed
  /\ pubPc = "waitResp"
  /\ epmd[pubN].c = "respond"
  /\ LET creation == epmd[pubN].val
         res == PublishSwitch(creation)
     IN /\ epmd' = [epmd EXCEPT ![pubN].c = "loop"]
        /\ IF res = "ok"
             THEN /\ Creation' = creation
                  /\ accepting' = accepting \cup {pubRes[pubN].port}
                  /\ pubPc' = "allocNk"
                  /\ pubRes' = [pubRes EXCEPT ![pubN].got = creation,
                                              ![pubN].stamp = epmd[pubN].stamp]
             ELSE /\ UNCHANGED <<Creation, accepting>>
                  /\ pubPc' = "idle"
                  /\ pubRes' = [pubRes EXCEPT ![pubN].got = creation,
                                              ![pubN].stamp = epmd[pubN].stamp,
                                              ![pubN].result = res]
  /\ UNCHANGED <<Port, channels, registered, listeners, crashed,
                 spawn, chans, call, conn, pubN, pubTmp>>

\* prepareProcesses: Spawn of netKernel / globalNameServer up to allocatePid
PrepAllocate(opts) ==
  /\ ~crashed
  /\ pubPc \in {"allocNk", "allocGns"}
  /\ \E opt \in opts : pubTmp' = [pid |-> AllocatePid, opt |-> opt]
  /\ pubPc' = IF pubPc = "allocNk" THEN "storeNk" ELSE "storeGns"
  /\ UNCHANGED <<nodeVars, crashed, spawn, chans, call, conn, pubN, pubRes, epmd>>

\* prepareProcesses: the rest of storeProcess and Spawn
PrepStore ==
  /\ ~crashed
  /\ pubPc \in {"storeNk", "storeGns"}
  /\ chans' = Append(chans, NewProcChannels(pubTmp.opt))
  /\ channels' = StoreProcess(pubTmp.pid, Len(chans) + 1)
  /\ pubPc' = IF pubPc = "storeNk" THEN "regNk" ELSE "regGns"
  /\ UNCHANGED <<Creation, Port, registered, listeners, accepting, crashed,
                 spawn, call, conn, pubN, pubTmp, pubRes, epmd>>

\* prepareProcesses: Register of the spawned pid; after the second one
\* Publish returns nil
PrepRegister ==
  /\ ~crashed
  /\ pubPc \in {"regNk", "regGns"}
  /\ registered' = RegisterMap(IF pubPc = "regNk" THEN "net_kernel"
                                                  ELSE "global_name_server", pubTmp.pid)
  /\ pubPc' = IF pubPc = "regNk" THEN "allocGns" ELSE "idle"
  /\ pubRes' = IF pubPc = "regGns" THEN [pubRes EXCEPT ![pubN].result = "ok"] ELSE pubRes
  /\ pubTmp' = NoTmp
  /\ UNCHANGED <<Creation, Port, channels, listeners, accepting, crashed,
                 spawn, chans, call, conn, pubN, epmd>>

(* ------------------- accesses to the two shared maps ------------------ *)
\* The accesses to Node.channels and Node.registered that the next step of a
\* task makes, as pairs <<map, mode>>. No function of the node takes a lock or
\* waits for another task before it touches a map, so the steps of two tasks
\* that are both ready to run may run at the same time.

\* the Publish call, inside prepareProcesses: allocatePid ranges over
\* n.channels, storeProcess assigns n.channels[pid], Register assigns
\* n.registered[name]
PublishAccess ==
  IF pubPc \in {"allocNk", "allocGns"} THEN {<<"channels", "read">>}
  ELSE IF pubPc \in {"storeNk", "storeGns"} THEN {<<"channels", "write">>}
  ELSE IF pubPc \in {"regNk", "regGns"} THEN {<<"registered", "write">>}
  ELSE {}

\* the handler of connection c, about to dispatch a frame: Whereis reads
\* n.registered and SendFrom reads n.channels
ConnAccess(c) ==
  IF conn[c].st = "reading" /\ ~crashed
    THEN {<<"registered", "read">>, <<"channels", "read">>}
    ELSE {}

(* --------------------------- specification ---------------------------- *)
\* NewNode: empty tables, Port 0, Creation 0; no task started
Init ==
  /\ Creation = 0
  /\ Port = 0
  /\ channels = <<>>
  /\ registered = <<>>
  /\ crashed = FALSE
  /\ listeners = {}
  /\ accepting = {}
  /\ spawn = [s \in Spawners |-> IdleSpawn]
  /\ chans = <<>>
  /\ call = [c \in Callers |-> IdleCall]
  /\ conn = [c \in Conns |-> NoConn]
  /\ pubN = 0
  /\ pubPc = "idle"
  /\ pubTmp = NoTmp
  /\ pubRes = [k \in Pubs |-> NoRes]
  /\ epmd = [k \in Pubs |-> NoEpmd]

(* The node as a whole: every operation with every input. *)
Next ==
  \/ \E s \in Spawners : SpawnAllocate(s, OptionChoices)
  \/ \E s \in Spawners : SpawnStore(s)
  \/ \E c \in Callers : Register(c, Names, PidChoices)
  \/ \E c \in Callers : Send(c)
  \/ \E c \in Callers : SendFrom(c)
  \/ \E c \in Callers : SendReturn(c)
  \/ \E c \in Conns : PeerConnect(c)
  \/ \E c \in Conns : Accept(c)
  \/ \E c \in Conns : ConnRead(c, Frames)
  \/ \E c \in Conns : ConnDeliver(c)
  \/ \E c \in Conns : ConnReadErr(c)
  \/ PublishListenFail
  \/ PublishListen
  \/ PublishRecv
  \/ PrepAllocate(OptionChoices)
  \/ PrepStore
  \/ PrepRegister
  \/ \E k \in Pubs : EpmdDialOk(k)
  \/ \E k \in Pubs : EpmdDialFail(k)
  \/ \E k \in Pubs : EpmdSendReq(k)
  \/ \E k \in Pubs : WriterWrite(k, BOOLEAN)
  \/ \E k \in Pubs : ReaderRead(k, Replies)
  \/ \E k \in Pubs : ReaderReadErr(k)
  \/ \E k \in Pubs : EpmdRecvReader(k)
  \/ \E k \in Pubs : EpmdRecvWriter(k)

Spec == Init /\ [][Next]_vars

(* The process table and the registry under concurrent API callers: Spawn,  *)
(* Register, Send and SendFrom on a node that was not published.            *)
TableNext ==
  \/ \E s \in Spawners : SpawnAllocate(s, OptionChoices)
  \/ \E s \in Spawners : SpawnStore(s)
  \/ \E c \in Callers : Register(c, Names, PidChoices)
  \/ \E c \in Callers : Send(c)
  \/ \E c \in Callers : SendFrom(c)
  \/ \E c \in Callers : SendReturn(c)

SpecTable == Init /\ [][TableNext]_vars

(* Publish and the EPMD handshake against a daemon that may answer anything, *)
(* fail or close at any time.                                               *)
PublishNext ==
  \/ PublishListenFail
  \/ PublishListen
  \/ PublishRecv
  \/ PrepAllocate({NoOption})
  \/ PrepStore
  \/ PrepRegister
  \/ \E k \in Pubs : EpmdDialOk(k)
  \/ \E k \in Pubs : EpmdDialFail(k)
  \/ \E k \in Pubs : EpmdSendReq(k)
  \/ \E k \in Pubs : WriterWrite(k, BOOLEAN)
  \/ \E k \in Pubs : ReaderRead(k, Replies)
  \/ \E k \in Pubs : ReaderReadErr(k)
  \/ \E k \in Pubs : EpmdRecvReader(k)
  \/ \E k \in Pubs : EpmdRecvWriter(k)

SpecPublish == Init /\ [][PublishNext]_vars

(* One peer connection on a node published once against a daemon that      *)
(* accepts the registration and keeps its connection open; the two support  *)
(* processes are spawned with a chan-size of 1, and one API caller          *)
(* registers the name a for an identity of another node.                    *)
ConnNext ==
  \/ PublishListen /\ pubN = 0
  \/ PublishRecv
  \/ PrepAllocate({1})
  \/ PrepStore
  \/ PrepRegister
  \/ EpmdDialOk(1)
  \/ EpmdSendReq(1)
  \/ WriterWrite(1, {TRUE})
  \/ ReaderRead(1, {OkReply(1)}) /\ epmd[1].reads = 0
  \/ EpmdRecvReader(1)
  \/ Register(1, {"a"}, {RemotePid}) /\ call[1].n = 0
  \/ PeerConnect(1)
  \/ Accept(1)
  \/ ConnRead(1, Frames)
  \/ ConnDeliver(1)
  \/ ConnReadErr(1)

SpecConn == Init /\ [][ConnNext]_vars

\* the frames of SpecLoop: one that is dropped and a registered send to
\* net_kernel
LoopFrames ==
  {<<>>, <<CtlTuple(REG_SEND, TPid(RemotePid), TAtom("net_kernel")), TAtom("m1")>>}

(* Several peer connections on a node published once, each sending frames   *)
(* and ending at any time.                                                  *)
LoopNext ==
  \/ PublishListen /\ pubN = 0
  \/ PublishRecv
  \/ PrepAllocate({1})
  \/ PrepStore
  \/ PrepRegister
  \/ EpmdDialOk(1)
  \/ EpmdSendReq(1)
  \/ WriterWrite(1, {TRUE})
  \/ ReaderRead(1, {OkReply(1)}) /\ epmd[1].reads = 0
  \/ EpmdRecvReader(1)
  \/ \E c \in Conns : PeerConnect(c)
  \/ \E c \in Conns : Accept(c)
  \/ \E c \in Conns : ConnRead(c, LoopFrames)
  \/ \E c \in Conns : ConnDeliver(c)
  \/ \E c \in Conns : ConnReadErr(c)

SpecLoop == Init /\ [][LoopNext]_vars

(* The name registry under API callers that register two names for any      *)
(* identity, among them the zero identity and that of a spawned process.    *)
RegistryNext ==
  \/ SpawnAllocate(1, OptionChoices)
  \/ SpawnStore(1)
  \/ \E c \in Callers : Register(c, {"a", "net_kernel"}, PidChoices)

SpecRegistry == Init /\ [][RegistryNext]_vars


(* ------------------------------ claims -------------------------------- *)
\* C1: the identities returned by any number of Spawn calls that run concurrently
\* are pairwise distinct, and the process table ends with one entry per
\* spawned process.
C1_SpawnedIdentitiesDistinct ==
  /\ \A s1, s2 \in Spawners :
       (s1 # s2 /\ spawn[s1].pc = "done" /\ spawn[s2].pc = "done")
         => spawn[s1].pid # spawn[s2].pid
  /\ Cardinality(DOMAIN channels) = Len(chans)

\* C2: Send and SendFrom called with an identity that has no entry in the process
\* table fail and return: no caller is ever left in its channel send on the
\* channels of an absent entry, where it would stay forever.
C2_UnknownTargetReturns ==
  \A c \in Callers : ~(call[c].pc = "sending" /\ call[c].pend.ch = 0)

\* C3: a registered-send frame whose destination cannot be resolved is dropped and
\* the dispatch loop remains in the reading state: no connection is ever left
\* inside the dispatch of such a frame, in a send on the channels of an absent entry.
C3_UnresolvedFrameKeepsReading ==
  \A c \in Conns : ~(conn[c].st = "sending" /\ conn[c].pend.ch = 0)


\* A frame of exactly two top-level values whose first is a control tuple of four
\* elements with the registered-send opcode.
IsRegSendFrame(terms) ==
  /\ Len(terms) = 2
  /\ terms[1].tag = "tuple"
  /\ Len(terms[1].val) = 4
  /\ terms[1].val[1].tag = "int"
  /\ terms[1].val[1].val = REG_SEND

\* mLoop of connection c dispatches a frame in this step.
Dispatches(c) == conn'[c].frames = conn[c].frames + 1

\* What the dispatch of a registered-send frame to the identity pid must leave
\* behind: the send of (2nd element, payload) on the attributed queue of pid's
\* entry, nothing enqueued or changed yet, nothing aborted.
SendsTo(c, pid) ==
  /\ conn'[c].st = "sending"
  /\ conn'[c].pend.q = "inFrom"
  /\ conn'[c].pend.to = pid
  /\ pid \in DOMAIN channels
  /\ conn'[c].pend.ch = channels[pid]
  /\ conn'[c].pend.val = <<conn'[c].last[1].val[2], conn'[c].last[2]>>
  /\ ~crashed'
  /\ UNCHANGED <<chans, channels, registered>>

\* The send of connection c completes in this step: exactly one pair is appended
\* to the attributed queue it was sent on and every other queue is unchanged.
CompletesSend(c) ==
  (conn[c].st = "sending" /\ conn'[c].st = "reading")
    => /\ conn[c].pend.ch \in 1..Len(chans)
       /\ chans' = [chans EXCEPT ![conn[c].pend.ch].inFrom = Append(@, conn[c].pend.val)]
       /\ UNCHANGED <<channels, registered>>

\* C4 as stated: a registered-send frame whose destination is a registered name, or
\* an identity present in the process table, puts exactly one pair (sender, payload)
\* on the attributed queue of the resolved identity and changes no other queue.
C4_RegisteredNameDelivers ==
  [][\A c \in Conns :
       /\ (Dispatches(c) /\ IsRegSendFrame(conn'[c].last)) =>
            LET to == conn'[c].last[1].val[4] IN
              /\ (to.tag = "pid" /\ to.val \in DOMAIN channels) => SendsTo(c, to.val)
              /\ (to.tag = "atom" /\ to.val \in DOMAIN registered)
                   => SendsTo(c, registered[to.val])
       /\ CompletesSend(c)]_vars

\* C4 amended: the same, for a destination that is an identity present in the
\* process table or a name registered to an identity present in the process
\* table; the enqueue waits while that queue is full.
C4_ResolvedDestinationDelivers ==
  [][\A c \in Conns :
       /\ (Dispatches(c) /\ IsRegSendFrame(conn'[c].last)) =>
            LET to == conn'[c].last[1].val[4] IN
              /\ (to.tag = "pid" /\ to.val \in DOMAIN channels) => SendsTo(c, to.val)
              /\ (to.tag = "atom" /\ to.val \in DOMAIN registered
                    /\ registered[to.val] \in DOMAIN channels)
                   => SendsTo(c, registered[to.val])
       /\ CompletesSend(c)]_vars

\* C4 witness: a frame addressed to a registered name was dispatched and its pair
\* (sender, payload) is on the attributed queue of the name's process.
C4_Witness ==
  \E c \in Conns :
    /\ conn[c].st = "reading"
    /\ IsRegSendFrame(conn[c].last)
    /\ conn[c].last[1].val[4].tag = "atom"
    /\ conn[c].last[1].val[4].val \in DOMAIN registered
    /\ registered[conn[c].last[1].val[4].val] \in DOMAIN channels
    /\ \E i \in 1..Len(chans) :
         /\ chans[i].inFrom = <<  <<conn[c].last[1].val[2], conn[c].last[2]>>  >>
         /\ channels[registered[conn[c].last[1].val[4].val]] = i


\* C5: for every creation stamp the response parser accepts (ok = true), the
\* Publish call that reads the handshake's answer does not fail: it stores that
\* stamp and its port is served by an accept loop.
C5_ValidStampPublishes ==
  \A k \in Pubs :
    pubRes[k].stamp # NoStamp =>
      /\ pubRes[k].result \in {"running", "ok"}
      /\ pubRes[k].got = pubRes[k].stamp
      /\ pubRes[k].port \in accepting

\* Publish call k returned the duplicate-name error.
ReturnedDup(k) == pubRes[k].result = "dup"

\* No Publish call has stored a creation stamp so far.
NoneStored == \A k \in Pubs : pubRes[k].got \in {NoStamp, DUP_MARK, NOCONN_MARK}

\* C6: when the daemon's response decodes to the duplicate-name failure, Publish
\* returns the duplicate-name error in the step that reads the answer, which
\* starts no accept loop, spawns and registers nothing and leaves the creation
\* stamp alone; the port of such a call never gets an accept loop, and while no
\* call has stored a stamp the creation stamp is 0 and both tables are empty.
C6_DuplicateNameAborts ==
  /\ [][(pubPc = "waitResp" /\ pubPc' # "waitResp" /\ epmd[pubN].stamp = NoStamp)
          => /\ ReturnedDup(pubN)'
             /\ pubPc' = "idle"
             /\ UNCHANGED <<Creation, accepting, channels, chans, registered>>]_vars
  /\ [](\A k \in Pubs : ReturnedDup(k) => pubRes[k].port \notin accepting)
  /\ [](NoneStored => (Creation = 0 /\ accepting = {} /\ chans = <<>>
                         /\ DOMAIN registered = {}))

\* C6 witness: a Publish call whose response failed to decode to a stamp has
\* returned the duplicate-name error.
C6_Witness ==
  \E k \in Pubs : ReturnedDup(k) /\ pubRes[k].stamp = NoStamp /\ Creation = 0

\* C7: whenever Publish returned a handshake error, the listening socket it bound
\* is closed.
C7_FailedPublishClosesListener ==
  \A k \in Pubs :
    pubRes[k].result \in {"dup", "noconn"} => pubRes[k].port \notin listeners

\* C8: when the connection to the daemon cannot be established, no task aborts
\* and the Publish call is waiting for, or has returned, the daemon-unreachable
\* error.
C8_DialFailureIsReturned ==
  \A k \in Pubs :
    epmd[k].c = "dialPanic" =>
      (~crashed /\ pubRes[k].result \in {"running", "noconn"})

\* C9: after a handshake exchange that ends without a valid creation stamp, Publish
\* returns an error: it is never left waiting for the answer of a handshake task
\* that has ended.
C9_FailedHandshakeReturnsError ==
  ~(pubPc = "waitResp" /\ pubN >= 1 /\ epmd[pubN].c = "panic")

\* Some Publish call has completed a handshake and stored its creation stamp.
HandshakeDone == ~NoneStored

\* C10: the creation stamp is 0 until a handshake has completed successfully, and
\* once set no later step changes it.
C10_CreationSetOnce ==
  /\ [](~HandshakeDone => Creation = 0)
  /\ [][HandshakeDone => Creation' = Creation]_vars

\* The call that caller c completed last.
LastCall(c) == call[c].log[Len(call[c].log)]

\* Caller c completes a Register call in this step.
Registers(c) ==
  /\ Len(call'[c].log) = Len(call[c].log) + 1
  /\ LastCall(c)'.op = "Register"

\* C11: a Register(name, pid) call makes Whereis(name) return pid and leaves the
\* binding of every other name as it was, and no other step changes a binding:
\* Whereis(name) is the identity of the most recent Register of that name.
C11_LastRegisterWins ==
  [][\A c \in Callers :
       /\ Registers(c) =>
            \A a \in Names :
              IF a = LastCall(c)'.name
                THEN /\ Whereis(a)' = LastCall(c)'.to
                     /\ a \in DOMAIN registered'
                ELSE /\ Whereis(a)' = Whereis(a)
                     /\ (a \in DOMAIN registered') = (a \in DOMAIN registered)
       /\ (\A d \in Callers : ~Registers(d)) => registered' = registered]_vars

\* C11 witness: a caller registered one name twice, for two identities, and
\* Whereis returns the second one.
C11_Witness ==
  \E c \in Callers :
    /\ Len(call[c].log) = 2
    /\ call[c].log[1].op = "Register" /\ call[c].log[2].op = "Register"
    /\ call[c].log[1].name = call[c].log[2].name
    /\ call[c].log[1].to # call[c].log[2].to
    /\ Whereis(call[c].log[2].name) = call[c].log[2].to

\* C12: what Whereis returns for a name that was never registered differs from
\* what it returns for any registered name, whatever identity that name is
\* bound to (the zero-valued identity included).
C12_UnboundNameIsNotFound ==
  \A a, b \in Names :
    (a \notin DOMAIN registered /\ b \in DOMAIN registered) => Whereis(a) # Whereis(b)

\* The names caller c has passed to Register so far.
RegisteredBy(c) ==
  {call[c].log[i].name : i \in {j \in 1..Len(call[c].log) : call[c].log[j].op = "Register"}}

\* The names passed to Register so far, by any caller.
Passed == UNION {RegisteredBy(c) : c \in Callers}

\* C13: every slice Registered() may return holds exactly the names passed to
\* Register so far, each of them once.
C13_RegisteredListsNamesPassed ==
  \A s \in Registered :
    /\ Len(s) = Cardinality(Passed)
    /\ {s[i] : i \in 1..Len(s)} = Passed

\* C13 witness: two names were registered, so that Registered() has two
\* enumeration orders.
C13_Witness ==
  /\ Cardinality(Passed) = 2
  /\ Cardinality(Registered) = 2

\* The values caller c has sent to identity p with operation op ("Send" or
\* "SendFrom"), in the order of its calls.
SentTo(c, op, p) ==
  LET IsOne(e) == e.op = op /\ e.to = p
      es == SelectSeq(call[c].log, IsOne)
  IN [i \in 1..Len(es) |-> es[i].val[1]]

\* The queue of identity p's table entry that operation op sends on.
QueueOf(op, p) ==
  IF op = "Send" THEN chans[channels[p]].in ELSE chans[channels[p]].inFrom

\* C14: when one caller is the only sender to an identity of the process table,
\* the direct queue of that identity holds the payloads of the caller's
\* completed Send calls in the order of the calls, none lost or duplicated, and
\* its attributed queue those of its SendFrom calls (nothing is dequeued here).
C14_SendsArriveInOrder ==
  \A c \in Callers, p \in DOMAIN channels, op \in {"Send", "SendFrom"} :
    (\A d \in Callers \ {c} : SentTo(d, op, p) = <<>>)
      => QueueOf(op, p) = SentTo(c, op, p)

\* C15: the three queues of a process spawned with no capacity option have
\* capacity 100 each.
C15_DefaultCapacityIs100 ==
  \A s \in Spawners :
    (spawn[s].pc = "done" /\ spawn[s].opt = NoOption)
      => /\ chans[spawn[s].pcs].cap = DefaultChanSize
         /\ chans[spawn[s].pcs].ctlCap = DefaultChanSize

\* C16: the dispatch of a frame that is not a well-formed registered send changes
\* no mailbox, no process-table entry and no registry binding, aborts nothing,
\* and leaves the dispatch loop reading the next frame.
C16_MalformedFrameIsDropped ==
  [][\A c \in Conns :
       (Dispatches(c) /\ ~IsRegSendFrame(conn'[c].last))
         => /\ conn'[c].st = "reading"
            /\ ~crashed'
            /\ UNCHANGED <<chans, channels, registered>>]_vars

\* Two sets of accesses hold accesses to the same map, one of them a write.
AccessConflict(A, B) ==
  \E a \in A, b \in B : a[1] = b[1] /\ "write" \in {a[2], b[2]}

\* C17: once Publish has bound the port, no two tasks are ever both ready to
\* access the process table or the registry with one of them writing: neither
\* the Publish call and a connection handler, nor two connection handlers.
C17_MapAccessIsSerialized ==
  \A c \in Conns :
    /\ ~AccessConflict(PublishAccess, ConnAccess(c))
    /\ \A d \in Conns \ {c} : ~AccessConflict(ConnAccess(c), ConnAccess(d))

\* An I/O error on the daemon connection of Publish call k has occurred: the
\* reader is past a failed Read, the writer holds a failed Write, or epmdC has
\* received the marker of one of them.
DaemonIoError(k) ==
  \/ epmd[k].r \in {"sendErr1", "sendErr2", "returned"}
  \/ epmd[k].w = "sendErr"
  \/ epmd[k].c = "panic"

\* C18: a read or write error on the daemon connection, at any time, never
\* aborts the node.
C18_DaemonIoErrorStaysLocal ==
  \A k \in Pubs : DaemonIoError(k) => ~crashed

\* Connection c has been accepted and its handler has not ended.
Running(c) == conn[c].st \in {"reading", "sending"}

\* C19: an accepted connection stays with its handler (reading, or inside the
\* dispatch of a frame it read) until a read of a frame fails; that step takes it
\* from reading to terminated, closes its socket, and changes nothing else: no
\* other connection, not the accept loop, the process table or the registry. A
\* terminated connection never changes again (no frame, no reading), and the
\* socket of a connection is closed once if it is terminated, never otherwise.
C19_ReadErrorEndsOnlyThatConnection ==
  /\ [](\A c \in Conns :
          conn[c].closes = IF conn[c].st = "terminated" THEN 1 ELSE 0)
  /\ [][\A c \in Conns :
          /\ conn[c].st = "terminated" => conn'[c] = conn[c]
          /\ Running(c) => (Running(c)' \/ conn'[c].st = "terminated")
          /\ (Running(c) /\ conn'[c].st = "terminated")
               => /\ conn[c].st = "reading"
                  /\ conn'[c] = [conn[c] EXCEPT !.st = "terminated", !.closes = 1]
                  /\ \A d \in Conns \ {c} : conn'[d] = conn[d]
                  /\ UNCHANGED <<accepting, listeners, channels, chans, registered,
                                 crashed>>]_vars

\* C19 witness: one connection has ended after a frame of it was dispatched, its
\* socket closed once, and another accepted connection has since had a frame
\* dispatched and is still running on a port whose accept loop runs.
C19_Witness ==
  \E c, d \in Conns :
    /\ c # d
    /\ conn[c].st = "terminated" /\ conn[c].frames >= 1 /\ conn[c].closes = 1
    /\ Running(d) /\ conn[d].frames = MaxFrames
    /\ conn[d].port \in accepting
    /\ ~crashed

\* the names of the two support processes
SupportNames == {"net_kernel", "global_name_server"}

\* C20: whenever a connection handler dispatches a registered-send frame
\* addressed to net_kernel or global_name_server, the name is bound to an
\* identity of the process table at that moment.
C20_SupportProcessesReadyBeforeDispatch ==
  [][\A c \in Conns :
       (/\ Dispatches(c)
        /\ IsRegSendFrame(conn'[c].last)
        /\ conn'[c].last[1].val[4].tag = "atom"
        /\ conn'[c].last[1].val[4].val \in SupportNames)
         => /\ conn'[c].last[1].val[4].val \in DOMAIN registered
            /\ registered[conn'[c].last[1].val[4].val] \in DOMAIN channels]_vars

====
